---------------------------- MODULE Spec2Model ----------------------------
(***************************************************************************)
(* Model of the concurrent pagination engine of go-canvas:                 *)
(*   paginated.firstReq / channel / collect and the Link-header parser     *)
(*   (pagination source), and the typed adapters onlyFiles / onlyFolders   *)
(*   (course.go).                                                          *)
(*                                                                         *)
(* Goroutines are processes with a program counter each.  The channels     *)
(* p.objects, p.errs and results are unbuffered: a send and the matching   *)
(* receive are one step (a rendezvous), written as an action of the        *)
(* receiver that names the sender.  A receive from a closed channel yields *)
(* the zero value (nil), a send on or a close of a closed channel panics,  *)
(* and a panic ends the whole process (crashed).                           *)
(***************************************************************************)
EXTENDS Integers, Sequences, FiniteSets, TLC

\* ------------------------------------------------------------------ bounds
MaxPages == 2
MaxObjs == 2
MaxLinks == 2

\* largest value strconv.ParseInt(s, 10, 32) accepts
MaxInt32 == 2147483647

Pages == 1..MaxPages

\* ------------------------------------------------------------------ values
\* the nil interface value on the object stream
NilObj == 0
\* the i-th object a decode call builds for page k (never nil)
Obj(k, i) == k * 10 + i
PageOf(o) == o \div 10

NilErr == [kind |-> "nil", page |-> 0]
Err(kind, k) == [kind |-> kind, page |-> k]

VARIABLES
  mode,        \* which consumer drives the engine: "collect", "adapter", "drain"
  policy,      \* the adapter's error policy: "cancel", "ignore", "default"
  hdr,         \* the parser specification only: the Link header's matches
  crashed,     \* "none", or the panic that ended the process
  mainpc,      \* position of the goroutine that called channel()
  n,           \* p.n
  firstErr,    \* err of channel() after firstReq
  hasLast,     \* the first response's Link header had a rel="last" match
  page,        \* loop variable of channel()
  calls,       \* how often the transport was asked for each page
  wg,          \* counter of p.wg
  zeroHits,    \* how often a Done brought the counter to zero
  jpc,         \* position of each page job
  jrest,       \* the objects a job has still to send
  jerr,        \* the error a job is about to send
  decoded,     \* what each page's job ended with: "none", "fail" or "ok"
  dlist,       \* the list the decode call of each page returned
  cpc,         \* position of the closing goroutine
  objClosed, errClosed, objCloses, errCloses,
  recvObjs,    \* per sending page: what was received from p.objects, in order
  recvErrs,    \* per sending page (0: channel() itself): what was received
               \* from p.errs
  kpc,         \* position of collect()
  collection,  \* collect()'s collection
  result,      \* what collect() returned
  apc,         \* position of the adapter goroutine
  herr,        \* the error handed to the policy
  fwd,         \* the object the adapter is about to forward
  quit,        \* number of values buffered in quit (capacity 1)
  quitClosed,  \* quit has been closed
  signalled,   \* the policy has sent on quit
  resClosed, resCloses,
  delivered,   \* per page of origin: what was received from results, in order
  dErr, dObj   \* the draining consumer has seen errs / objects closed

mainv == <<mainpc, n, firstErr, hasLast, page>>
barrier == <<wg, zeroHits>>
jobsv == <<jpc, jrest, jerr, decoded, dlist>>
chans == <<objClosed, errClosed, objCloses, errCloses>>
hist == <<recvObjs, recvErrs>>
collv == <<kpc, collection, result>>
adaptv == <<apc, herr, fwd, quit, quitClosed, signalled, resClosed, resCloses,
           delivered>>
drainv == <<dErr, dObj>>
setup == <<mode, policy, hdr>>
vars == <<setup, crashed, mainv, calls, barrier, jobsv, cpc, chans, hist,
          collv, adaptv, drainv>>

\* ------------------------------------------------------- Link header parser
DigitChars == <<"0", "1", "2", "3", "4", "5", "6", "7", "8", "9">>
IsDigit(c) == \E i \in 1..10 : DigitChars[i] = c
DigitVal(c) == (CHOOSE i \in 1..10 : DigitChars[i] = c) - 1

RECURSIVE UVal(_)
UVal(s) == IF s = <<>> THEN 0
           ELSE UVal(SubSeq(s, 1, Len(s) - 1)) * 10 + DigitVal(s[Len(s)])

\* strconv.ParseInt(s, 10, 32) on a string given as its characters
ParseInt(s) ==
  IF s = <<>> THEN [ok |-> FALSE, val |-> 0]
  ELSE LET signed == s[1] \in {"+", "-"}
           body == IF signed THEN Tail(s) ELSE s
       IN IF body = <<>> \/ \E i \in 1..Len(body) : ~IsDigit(body[i])
          THEN [ok |-> FALSE, val |-> 0]
          ELSE LET v == UVal(body)
               IN IF s[1] = "-"
                  THEN IF v - 1 > MaxInt32 THEN [ok |-> FALSE, val |-> 0]
                       ELSE [ok |-> TRUE, val |-> 0 - v]
                  ELSE IF v > MaxInt32 THEN [ok |-> FALSE, val |-> 0]
                       ELSE [ok |-> TRUE, val |-> v]

\* a matched URL: one url.Parse rejects, or one whose page parameter is q
\* (<<>> when the parameter is missing)
BadURL == <<"%">>

\* mutant: a page parameter that does not parse counts as page 1
newlink_DefaultsToOne(target) ==
  IF target = BadURL THEN [err |-> Err("urlparse", 0), page |-> 0]
  ELSE LET r == ParseInt(target)
       IN IF ~r.ok THEN [err |-> NilErr, page |-> 1]
          ELSE [err |-> NilErr, page |-> r.val]

\* newlink(urlstr): the page of a matched URL
newlink(target) ==
  IF target = BadURL THEN [err |-> Err("urlparse", 0), page |-> 0]
  ELSE LET r == ParseInt(target)
       IN IF ~r.ok THEN [err |-> Err("parsepage", 0), page |-> 0]
          ELSE [err |-> NilErr, page |-> r.val]

\* header: the matches of resourceRegex in the Link header, in order, each
\* [rel, target].  links: relation name -> page, as a set of pairs with one
\* pair per name (a later match replaces an earlier one).
RECURSIVE linkLoop(_, _)
linkLoop(parts, links) ==
  IF parts = <<>> THEN [links |-> links, err |-> NilErr]
  ELSE LET part == Head(parts)
           l == newlink(part.target)
       IN IF l.err # NilErr THEN [links |-> links, err |-> l.err]
          ELSE linkLoop(Tail(parts),
                        {x \in links : x[1] # part.rel} \cup {<<part.rel, l.page>>})

newLinkedResource(header) == linkLoop(header, {})

HasLink(links, rel) == \E x \in links : x[1] = rel
LinkPage(links, rel) == (CHOOSE x \in links : x[1] = rel)[2]

\* firstReq after the transport returned resp: [ok, header]
firstReq(resp) ==
  IF ~resp.ok THEN [n |-> 0, err |-> Err("transport", 1)]
  ELSE LET pages == newLinkedResource(resp.header)
       IN IF pages.err # NilErr THEN [n |-> 0, err |-> pages.err]
          ELSE IF ~HasLink(pages.links, "last")
               THEN [n |-> 0, err |-> Err("nolast", 0)]
               ELSE [n |-> LinkPage(pages.links, "last"), err |-> NilErr]

\* ------------------------------------------------------------------ inputs
RECURSIVE FormatUInt(_)
FormatUInt(v) == IF v < 10 THEN <<DigitChars[v + 1]>>
                 ELSE Append(FormatUInt(v \div 10), DigitChars[(v % 10) + 1])
FormatInt(v) == IF v < 0 THEN <<"-">> \o FormatUInt(0 - v) ELSE FormatUInt(v)

PageParams == {<<>>, <<"x">>, <<"1", "x">>, <<"-">>} \cup {FormatInt(v) : v \in (-1)..MaxPages}
Targets == {BadURL} \cup PageParams
Rels == {"last", "next"}
LinkParts == [rel : Rels, target : Targets]
Headers == UNION {[1..len -> LinkParts] : len \in 0..MaxLinks}
FirstResponses == {[ok |-> FALSE, header |-> <<>>]}
                  \cup {[ok |-> TRUE, header |-> h] : h \in Headers}

\* the lists p.init may return for page k: up to MaxObjs elements, each the
\* page's own object or nil
DecodeLists(k) ==
  UNION {{l \in [1..len -> {NilObj} \cup {Obj(k, i) : i \in 1..len}] :
            \A i \in 1..len : l[i] \in {NilObj, Obj(k, i)}} : len \in 0..MaxObjs}

\* ------------------------------------------------------------------- Init
InitState ==
  /\ crashed = "none"
  /\ mainpc = "firstReq"
  /\ n = 0
  /\ firstErr = NilErr
  /\ hasLast = FALSE
  /\ page = 0
  /\ calls = [k \in Pages |-> 0]
  /\ wg = 0
  /\ zeroHits = 0
  /\ jpc = [k \in Pages |-> "idle"]
  /\ jrest = [k \in Pages |-> <<>>]
  /\ jerr = [k \in Pages |-> NilErr]
  /\ decoded = [k \in Pages |-> "none"]
  /\ dlist = [k \in Pages |-> <<>>]
  /\ cpc = "idle"
  /\ objClosed = FALSE /\ errClosed = FALSE
  /\ objCloses = 0 /\ errCloses = 0
  /\ recvObjs = [k \in Pages |-> <<>>]
  /\ recvErrs = [k \in 0..MaxPages |-> <<>>]
  /\ kpc = "call"
  /\ collection = <<>>
  /\ result = [isNil |-> TRUE, seq |-> <<>>, err |-> NilErr]
  /\ apc = "idle"
  /\ herr = NilErr
  /\ fwd = NilObj
  /\ quit = 0
  /\ quitClosed = FALSE
  /\ signalled = FALSE
  /\ resClosed = FALSE /\ resCloses = 0
  /\ delivered = [k \in Pages |-> <<>>]
  /\ dErr = FALSE /\ dObj = FALSE

Init ==
  /\ mode \in {"collect", "adapter", "drain"}
  /\ policy \in {"cancel", "ignore", "default"}
  /\ (mode # "adapter" => policy = "ignore")
  /\ hdr = <<>>
  /\ InitState

Alive == crashed = "none"


\* ------------------------------------------------------ paginated.channel
\* mutant: the request for page 2 is started together with the first request
FirstReq_Prefetch ==
  /\ Alive /\ mainpc = "firstReq"
  /\ \E resp \in FirstResponses :
       LET r == firstReq(resp)
       IN /\ calls' = [calls EXCEPT ![1] = @ + 1]
          /\ firstErr' = r.err
          /\ hasLast' = (resp.ok /\ \E i \in 1..Len(resp.header) :
                                       resp.header[i].rel = "last")
          /\ IF r.err # NilErr
             THEN mainpc' = "sendFirstErr" /\ n' = n
             ELSE mainpc' = "wgAdd" /\ n' = r.n
  /\ jpc' = [jpc EXCEPT ![MaxPages] = "get"]
  /\ UNCHANGED <<setup, crashed, page, barrier, jrest, jerr, decoded, dlist,
                 cpc, chans, hist, collv, adaptv, drainv>>

\* n, resp, err := p.firstReq()
FirstReq ==
  /\ Alive /\ mainpc = "firstReq"
  /\ \E resp \in FirstResponses :
       LET r == firstReq(resp)
       IN /\ calls' = [calls EXCEPT ![1] = @ + 1]
          /\ firstErr' = r.err
          /\ hasLast' = (resp.ok /\ \E i \in 1..Len(resp.header) :
                                       resp.header[i].rel = "last")
          /\ IF r.err # NilErr
             THEN mainpc' = "sendFirstErr" /\ n' = n
             ELSE mainpc' = "wgAdd" /\ n' = r.n
  /\ UNCHANGED <<setup, crashed, page, barrier, jobsv, cpc, chans, hist,
                 collv, adaptv, drainv>>

\* mutant: only the new fetches, pages 2..n, are registered
WgAdd_OnlyNewFetches ==
  /\ Alive /\ mainpc = "wgAdd"
  /\ IF wg + (n - 1) < 0
     THEN crashed' = "negative WaitGroup counter" /\ UNCHANGED <<mainpc, wg>>
     ELSE wg' = wg + (n - 1) /\ mainpc' = "goFirst" /\ UNCHANGED crashed
  /\ UNCHANGED <<setup, n, firstErr, hasLast, page, calls, zeroHits, jobsv,
                 cpc, chans, hist, collv, adaptv, drainv>>

\* p.wg.Add(n): a negative counter panics
WgAdd ==
  /\ Alive /\ mainpc = "wgAdd"
  /\ IF wg + n < 0
     THEN crashed' = "negative WaitGroup counter" /\ UNCHANGED <<mainpc, wg>>
     ELSE wg' = wg + n /\ mainpc' = "goFirst" /\ UNCHANGED crashed
  /\ UNCHANGED <<setup, n, firstErr, hasLast, page, calls, zeroHits, jobsv, cpc, chans,
                 hist, collv, adaptv, drainv>>

\* mutant: the loop over the pages starts at page 1
GoFirst_LoopFromOne ==
  /\ Alive /\ mainpc = "goFirst"
  /\ jpc' = [jpc EXCEPT ![1] = "init"]
  /\ page' = 1
  /\ mainpc' = "loop"
  /\ UNCHANGED <<setup, crashed, n, firstErr, hasLast, calls, barrier, jrest,
                 jerr, decoded, dlist, cpc, chans, hist, collv, adaptv, drainv>>

\* go func() { ... p.init(1, resp.Body) ... }(); page := 2
GoFirst ==
  /\ Alive /\ mainpc = "goFirst"
  /\ jpc' = [jpc EXCEPT ![1] = "init"]
  /\ page' = 2
  /\ mainpc' = "loop"
  /\ UNCHANGED <<setup, crashed, n, firstErr, hasLast, calls, barrier, jrest, jerr,
                 decoded, dlist, cpc, chans, hist, collv, adaptv, drainv>>

\* for page := 2; page <= n; page++ { go func(page, path) {...} }
GoPage ==
  /\ Alive /\ mainpc = "loop" /\ page <= n
  /\ jpc' = [jpc EXCEPT ![page] = "get"]
  /\ page' = page + 1
  /\ UNCHANGED <<setup, crashed, mainpc, n, firstErr, hasLast, calls, barrier, jrest,
                 jerr, decoded, dlist, cpc, chans, hist, collv, adaptv, drainv>>

\* go func() { p.wg.Wait(); ... }(); return p.objects
GoCloser ==
  /\ Alive /\ mainpc = "loop" /\ page > n
  /\ cpc' = "wait"
  /\ mainpc' = "returned"
  /\ UNCHANGED <<setup, crashed, n, firstErr, hasLast, page, calls, barrier, jobsv,
                 chans, hist, collv, adaptv, drainv>>

\* the error branch after the send p.errs <- err was taken: close(p.errs)
FailCloseErrs ==
  /\ Alive /\ mainpc = "failCloseErrs"
  /\ IF errClosed
     THEN crashed' = "close of closed channel"
          /\ UNCHANGED <<mainpc, errClosed, errCloses>>
     ELSE errClosed' = TRUE /\ errCloses' = errCloses + 1
          /\ mainpc' = "failCloseObjects" /\ UNCHANGED crashed
  /\ UNCHANGED <<setup, n, firstErr, hasLast, page, calls, barrier, jobsv, cpc,
                 objClosed, objCloses, hist, collv, adaptv, drainv>>

\* close(p.objects); return nil
FailCloseObjects ==
  /\ Alive /\ mainpc = "failCloseObjects"
  /\ IF objClosed
     THEN crashed' = "close of closed channel"
          /\ UNCHANGED <<mainpc, objClosed, objCloses>>
     ELSE objClosed' = TRUE /\ objCloses' = objCloses + 1
          /\ mainpc' = "returnedNil" /\ UNCHANGED crashed
  /\ UNCHANGED <<setup, n, firstErr, hasLast, page, calls, barrier, jobsv, cpc,
                 errClosed, errCloses, hist, collv, adaptv, drainv>>

\* ---------------------------------------------------------- the page jobs
\* resp, err := get(p.do, path, q)          (pages 2..n)
JobGet(k) ==
  /\ Alive /\ jpc[k] = "get"
  /\ calls' = [calls EXCEPT ![k] = @ + 1]
  /\ \E ok \in BOOLEAN :
       IF ok
       THEN jpc' = [jpc EXCEPT ![k] = "init"] /\ UNCHANGED <<jerr, decoded>>
       ELSE /\ jpc' = [jpc EXCEPT ![k] = "sendErr"]
            /\ jerr' = [jerr EXCEPT ![k] = Err("transport", k)]
            /\ decoded' = [decoded EXCEPT ![k] = "fail"]
  /\ UNCHANGED <<setup, crashed, mainv, barrier, jrest, dlist, cpc, chans,
                 hist, collv, adaptv, drainv>>

\* mutant: a page that decodes to no object is reported as a failed page
JobInit_EmptyIsError(k) ==
  /\ Alive /\ jpc[k] = "init"
  /\ \/ /\ jpc' = [jpc EXCEPT ![k] = "sendErr"]
        /\ jerr' = [jerr EXCEPT ![k] = Err("decode", k)]
        /\ decoded' = [decoded EXCEPT ![k] = "fail"]
        /\ UNCHANGED <<jrest, dlist>>
     \/ \E list \in DecodeLists(k) :
          /\ jrest' = [jrest EXCEPT ![k] = list]
          /\ dlist' = [dlist EXCEPT ![k] = list]
          /\ decoded' = [decoded EXCEPT ![k] = "ok"]
          /\ jpc' = [jpc EXCEPT ![k] = IF list = <<>> THEN "sendErr"
                                       ELSE "sendObj"]
          /\ jerr' = [jerr EXCEPT ![k] = IF list = <<>> THEN Err("decode", k)
                                         ELSE @]
  /\ UNCHANGED <<setup, crashed, mainv, calls, barrier, cpc, chans, hist,
                 collv, adaptv, drainv>>

\* list, err := p.init(k, resp.Body)
JobInit(k) ==
  /\ Alive /\ jpc[k] = "init"
  /\ \/ /\ jpc' = [jpc EXCEPT ![k] = "sendErr"]
        /\ jerr' = [jerr EXCEPT ![k] = Err("decode", k)]
        /\ decoded' = [decoded EXCEPT ![k] = "fail"]
        /\ UNCHANGED <<jrest, dlist>>
     \/ \E list \in DecodeLists(k) :
          /\ jrest' = [jrest EXCEPT ![k] = list]
          /\ dlist' = [dlist EXCEPT ![k] = list]
          /\ decoded' = [decoded EXCEPT ![k] = "ok"]
          /\ jpc' = [jpc EXCEPT ![k] = IF list = <<>> THEN "ret" ELSE "sendObj"]
          /\ UNCHANGED jerr
  /\ UNCHANGED <<setup, crashed, mainv, calls, barrier, cpc, chans, hist,
                 collv, adaptv, drainv>>

\* a send on a channel that was closed meanwhile panics
JobSendClosed(k) ==
  /\ Alive
  /\ \/ jpc[k] = "sendObj" /\ objClosed
     \/ jpc[k] = "sendErr" /\ errClosed
  /\ crashed' = "send on closed channel"
  /\ UNCHANGED <<setup, mainv, calls, barrier, jobsv, cpc, chans, hist,
                 collv, adaptv, drainv>>

\* mutant: Done is not deferred, and a job that returns early skips it
JobDone_SkippedOnError(k) ==
  /\ Alive /\ jpc[k] = "ret"
  /\ IF decoded[k] = "fail"
     THEN jpc' = [jpc EXCEPT ![k] = "done"] /\ UNCHANGED <<crashed, wg, zeroHits>>
     ELSE IF wg - 1 < 0
          THEN crashed' = "negative WaitGroup counter"
               /\ UNCHANGED <<jpc, wg, zeroHits>>
          ELSE /\ wg' = wg - 1
               /\ zeroHits' = IF wg - 1 = 0 THEN zeroHits + 1 ELSE zeroHits
               /\ jpc' = [jpc EXCEPT ![k] = "done"]
               /\ UNCHANGED crashed
  /\ UNCHANGED <<setup, mainv, calls, jrest, jerr, decoded, dlist, cpc, chans,
                 hist, collv, adaptv, drainv>>

\* the job returns: defer p.wg.Done()
JobDone(k) ==
  /\ Alive /\ jpc[k] = "ret"
  /\ IF wg - 1 < 0
     THEN crashed' = "negative WaitGroup counter"
          /\ UNCHANGED <<jpc, wg, zeroHits>>
     ELSE /\ wg' = wg - 1
          /\ zeroHits' = IF wg - 1 = 0 THEN zeroHits + 1 ELSE zeroHits
          /\ jpc' = [jpc EXCEPT ![k] = "done"]
          /\ UNCHANGED crashed
  /\ UNCHANGED <<setup, mainv, calls, jrest, jerr, decoded, dlist, cpc, chans,
                 hist, collv, adaptv, drainv>>

\* the two halves of a rendezvous on the sender's side
ErrSenders == {k \in Pages : jpc[k] = "sendErr"}
ObjSenders == {k \in Pages : jpc[k] = "sendObj"}

\* mutant: the job does not return after its send and sends the error again
TakeErr_NoReturn(k) ==
  /\ k \in ErrSenders /\ ~errClosed
  /\ jpc' = jpc
  /\ recvErrs' = [recvErrs EXCEPT ![k] = Append(@, jerr[k])]
  /\ UNCHANGED <<jrest, jerr, decoded, dlist, recvObjs>>

\* job k's p.errs <- err is received
TakeErr(k) ==
  /\ k \in ErrSenders /\ ~errClosed
  /\ jpc' = [jpc EXCEPT ![k] = "ret"]
  /\ recvErrs' = [recvErrs EXCEPT ![k] = Append(@, jerr[k])]
  /\ UNCHANGED <<jrest, jerr, decoded, dlist, recvObjs>>

\* mutant: the list is sent from its end
TakeObj_LastFirst(k) ==
  /\ k \in ObjSenders /\ ~objClosed
  /\ jrest' = [jrest EXCEPT ![k] = SubSeq(jrest[k], 1, Len(jrest[k]) - 1)]
  /\ jpc' = [jpc EXCEPT ![k] = IF Len(jrest[k]) = 1 THEN "ret" ELSE "sendObj"]
  /\ recvObjs' = [recvObjs EXCEPT ![k] = Append(@, jrest[k][Len(jrest[k])])]
  /\ UNCHANGED <<jerr, decoded, dlist, recvErrs>>

\* mutant: the range loop ends after its first send
TakeObj_Break(k) ==
  /\ k \in ObjSenders /\ ~objClosed
  /\ jrest' = [jrest EXCEPT ![k] = Tail(jrest[k])]
  /\ jpc' = [jpc EXCEPT ![k] = "ret"]
  /\ recvObjs' = [recvObjs EXCEPT ![k] = Append(@, Head(jrest[k]))]
  /\ UNCHANGED <<jerr, decoded, dlist, recvErrs>>

\* job k's p.objects <- o is received; the range loop goes on or ends
TakeObj(k) ==
  /\ k \in ObjSenders /\ ~objClosed
  /\ jrest' = [jrest EXCEPT ![k] = Tail(jrest[k])]
  /\ jpc' = [jpc EXCEPT ![k] = IF Len(jrest[k]) = 1 THEN "ret" ELSE "sendObj"]
  /\ recvObjs' = [recvObjs EXCEPT ![k] = Append(@, Head(jrest[k]))]
  /\ UNCHANGED <<jerr, decoded, dlist, recvErrs>>

\* ------------------------------------------------- the closing goroutine
\* mutant: the closing goroutine does not wait for the barrier
CloserWait_NoWait ==
  /\ Alive /\ cpc = "wait"
  /\ cpc' = "closeObjects"
  /\ UNCHANGED <<setup, crashed, mainv, calls, barrier, jobsv, chans, hist,
                 collv, adaptv, drainv>>

\* p.wg.Wait()
CloserWait ==
  /\ Alive /\ cpc = "wait" /\ wg = 0
  /\ cpc' = "closeObjects"
  /\ UNCHANGED <<setup, crashed, mainv, calls, barrier, jobsv, chans, hist,
                 collv, adaptv, drainv>>

\* close(p.objects)
CloseObjects ==
  /\ Alive /\ cpc = "closeObjects"
  /\ IF objClosed
     THEN crashed' = "close of closed channel"
          /\ UNCHANGED <<cpc, objClosed, objCloses>>
     ELSE objClosed' = TRUE /\ objCloses' = objCloses + 1
          /\ cpc' = "closeErrs" /\ UNCHANGED crashed
  /\ UNCHANGED <<setup, mainv, calls, barrier, jobsv, errClosed, errCloses,
                 hist, collv, adaptv, drainv>>

\* close(p.errs)
CloseErrs ==
  /\ Alive /\ cpc = "closeErrs"
  /\ IF errClosed
     THEN crashed' = "close of closed channel"
          /\ UNCHANGED <<cpc, errClosed, errCloses>>
     ELSE errClosed' = TRUE /\ errCloses' = errCloses + 1
          /\ cpc' = "done" /\ UNCHANGED crashed
  /\ UNCHANGED <<setup, mainv, calls, barrier, jobsv, objClosed, objCloses,
                 hist, collv, adaptv, drainv>>

Engine ==
  \/ FirstReq \/ WgAdd \/ GoFirst \/ GoPage \/ GoCloser
  \/ \E k \in Pages : JobGet(k)
  \/ \E k \in Pages : JobInit(k)
  \/ \E k \in Pages : JobSendClosed(k)
  \/ \E k \in Pages : JobDone(k)
  \/ CloserWait \/ CloseObjects \/ CloseErrs

\* ----------------------------------------------------- paginated.collect
\* p.channel() has returned; collect enters its loop
Returned == mainpc \in {"returned", "returnedNil"}

CollectStart ==
  /\ Alive /\ mode = "collect" /\ kpc = "call" /\ Returned
  /\ kpc' = "select"
  /\ UNCHANGED <<setup, crashed, mainv, calls, barrier, jobsv, cpc, chans,
                 hist, collection, result, adaptv, drainv>>

\* case err := <-p.errs, a job sending: err != nil, return nil, err
CollectRecvErr(k) ==
  /\ Alive /\ mode = "collect" /\ kpc = "select"
  /\ TakeErr(k)
  /\ result' = [isNil |-> TRUE, seq |-> <<>>, err |-> jerr[k]]
  /\ kpc' = "returned"
  /\ UNCHANGED <<setup, crashed, mainv, calls, barrier, cpc, chans,
                 collection, adaptv, drainv>>

\* case err := <-p.errs, the channel closed: err == nil, next iteration
CollectErrsClosed ==
  /\ Alive /\ mode = "collect" /\ kpc = "select" /\ errClosed
  /\ UNCHANGED vars

\* case obj := <-p.objects, a job sending
CollectRecvObj(k) ==
  /\ Alive /\ mode = "collect" /\ kpc = "select"
  /\ TakeObj(k)
  /\ IF Head(jrest[k]) = NilObj
     THEN /\ result' = [isNil |-> FALSE, seq |-> collection, err |-> NilErr]
          /\ kpc' = "returned"
          /\ UNCHANGED collection
     ELSE /\ collection' = Append(collection, Head(jrest[k]))
          /\ UNCHANGED <<kpc, result>>
  /\ UNCHANGED <<setup, crashed, mainv, calls, barrier, cpc, chans, adaptv,
                 drainv>>

\* case obj := <-p.objects, the channel closed: obj == nil
CollectObjectsClosed ==
  /\ Alive /\ mode = "collect" /\ kpc = "select" /\ objClosed
  /\ result' = [isNil |-> FALSE, seq |-> collection, err |-> NilErr]
  /\ kpc' = "returned"
  /\ UNCHANGED <<setup, crashed, mainv, calls, barrier, jobsv, cpc, chans,
                 hist, collection, adaptv, drainv>>

Collect ==
  \/ CollectStart
  \/ \E k \in Pages : CollectRecvErr(k)
  \/ CollectErrsClosed
  \/ \E k \in Pages : CollectRecvObj(k)
  \/ CollectObjectsClosed

InitCollect == Init /\ mode = "collect"
NextCollect == Engine \/ Collect
SpecCollect == InitCollect /\ [][NextCollect]_vars


\* ------------------------------------------------ onlyFiles / onlyFolders
\* ch := p.channel() has returned; go func() { defer close(results) ... }()
AdapterStart ==
  /\ Alive /\ mode = "adapter" /\ apc = "idle" /\ Returned
  /\ apc' = "select"
  /\ UNCHANGED <<setup, crashed, mainv, calls, barrier, jobsv, cpc, chans,
                 hist, collv, herr, fwd, quit, quitClosed, signalled, resClosed, resCloses,
                 delivered, drainv>>

\* case <-quit: return
AdapterQuit ==
  /\ Alive /\ mode = "adapter" /\ apc = "select"
  /\ quit > 0 \/ quitClosed
  /\ quit' = IF quit > 0 THEN quit - 1 ELSE quit
  /\ apc' = "closeResults"
  /\ UNCHANGED <<setup, crashed, mainv, calls, barrier, jobsv, cpc, chans,
                 hist, collv, herr, fwd, quitClosed, signalled, resClosed,
                 resCloses, delivered, drainv>>

\* case err := <-p.errs, a job sending: err != nil, handle(err, quit)
AdapterRecvErr(k) ==
  /\ Alive /\ mode = "adapter" /\ apc = "select"
  /\ TakeErr(k)
  /\ herr' = jerr[k]
  /\ apc' = "handle"
  /\ UNCHANGED <<setup, crashed, mainv, calls, barrier, cpc, chans, collv,
                 fwd, quit, quitClosed, signalled, resClosed, resCloses, delivered, drainv>>

\* case err := <-p.errs, the channel closed: err == nil, next iteration
AdapterErrsClosed ==
  /\ Alive /\ mode = "adapter" /\ apc = "select" /\ errClosed
  /\ UNCHANGED vars

\* case f := <-ch, a job sending: nil returns, anything else is forwarded
AdapterRecvObj(k) ==
  /\ Alive /\ mode = "adapter" /\ apc = "select"
  /\ TakeObj(k)
  /\ IF Head(jrest[k]) = NilObj
     THEN apc' = "closeResults" /\ UNCHANGED fwd
     ELSE apc' = "forward" /\ fwd' = Head(jrest[k])
  /\ UNCHANGED <<setup, crashed, mainv, calls, barrier, cpc, chans, collv,
                 herr, quit, quitClosed, signalled, resClosed, resCloses, delivered, drainv>>

\* case f := <-ch, the channel closed: f == nil, return
AdapterObjectsClosed ==
  /\ Alive /\ mode = "adapter" /\ apc = "select" /\ objClosed
  /\ apc' = "closeResults"
  /\ UNCHANGED <<setup, crashed, mainv, calls, barrier, jobsv, cpc, chans,
                 hist, collv, herr, fwd, quit, quitClosed, signalled, resClosed, resCloses,
                 delivered, drainv>>

\* results <- f.(*File), received by the reader of the typed channel
AdapterForward ==
  /\ Alive /\ mode = "adapter" /\ apc = "forward"
  /\ IF resClosed
     THEN crashed' = "send on closed channel" /\ UNCHANGED <<apc, delivered>>
     ELSE delivered' = [delivered EXCEPT ![PageOf(fwd)] = Append(@, fwd)]
          /\ apc' = "select"
          /\ UNCHANGED crashed
  /\ UNCHANGED <<setup, mainv, calls, barrier, jobsv, cpc, chans, hist, collv,
                 herr, fwd, quit, quitClosed, signalled, resClosed, resCloses, drainv>>

\* handle(err, quit) with a policy that cancels: quit <- 1 (capacity 1; the
\* send waits while the buffer is full)
HandleCancel ==
  /\ Alive /\ mode = "adapter" /\ apc = "handle" /\ policy = "cancel"
  /\ quit < 1
  /\ quit' = quit + 1
  /\ signalled' = TRUE
  /\ apc' = "select"
  /\ UNCHANGED <<setup, crashed, mainv, calls, barrier, jobsv, cpc, chans,
                 hist, collv, herr, fwd, quitClosed, resClosed, resCloses,
                 delivered, drainv>>

\* handle(err, quit) with a policy that never cancels
HandleIgnore ==
  /\ Alive /\ mode = "adapter" /\ apc = "handle" /\ policy = "ignore"
  /\ apc' = "select"
  /\ UNCHANGED <<setup, crashed, mainv, calls, barrier, jobsv, cpc, chans,
                 hist, collv, herr, fwd, quit, quitClosed, signalled, resClosed, resCloses,
                 delivered, drainv>>

\* defaultErrorHandler: quit <- 1
DefaultSend ==
  /\ Alive /\ mode = "adapter" /\ apc = "handle" /\ policy = "default"
  /\ quit < 1
  /\ quit' = quit + 1
  /\ signalled' = TRUE
  /\ apc' = "closeQuit"
  /\ UNCHANGED <<setup, crashed, mainv, calls, barrier, jobsv, cpc, chans,
                 hist, collv, herr, fwd, quitClosed, resClosed, resCloses,
                 delivered, drainv>>

\* defaultErrorHandler: close(quit)
DefaultClose ==
  /\ Alive /\ mode = "adapter" /\ apc = "closeQuit"
  /\ IF quitClosed
     THEN crashed' = "close of closed channel" /\ UNCHANGED <<apc, quitClosed>>
     ELSE quitClosed' = TRUE /\ apc' = "panic" /\ UNCHANGED crashed
  /\ UNCHANGED <<setup, mainv, calls, barrier, jobsv, cpc, chans, hist, collv,
                 herr, fwd, quit, signalled, resClosed, resCloses, delivered,
                 drainv>>

\* mutant: the handler returns instead of panicking
DefaultPanic_Returns ==
  /\ Alive /\ mode = "adapter" /\ apc = "panic"
  /\ apc' = "select"
  /\ UNCHANGED <<setup, crashed, mainv, calls, barrier, jobsv, cpc, chans,
                 hist, collv, herr, fwd, quit, quitClosed, signalled, resClosed,
                 resCloses, delivered, drainv>>

\* defaultErrorHandler: panic(err).  The panic unwinds the adapter goroutine,
\* which runs its deferred close(results), and ends the process.
DefaultPanic ==
  /\ Alive /\ mode = "adapter" /\ apc = "panic"
  /\ resClosed' = TRUE /\ resCloses' = resCloses + 1
  /\ apc' = "done"
  /\ crashed' = "panic in error handler"
  /\ UNCHANGED <<setup, mainv, calls, barrier, jobsv, cpc, chans, hist, collv,
                 herr, fwd, quit, quitClosed, signalled, delivered, drainv>>

\* mutant: results is closed inside the loop, which then goes on
AdapterClose_KeepsRunning ==
  /\ Alive /\ mode = "adapter" /\ apc = "closeResults"
  /\ IF resClosed
     THEN crashed' = "close of closed channel"
          /\ UNCHANGED <<apc, resClosed, resCloses>>
     ELSE resClosed' = TRUE /\ resCloses' = resCloses + 1 /\ apc' = "select"
          /\ UNCHANGED crashed
  /\ UNCHANGED <<setup, mainv, calls, barrier, jobsv, cpc, chans, hist, collv,
                 herr, fwd, quit, quitClosed, signalled, delivered, drainv>>

\* defer close(results)
AdapterClose ==
  /\ Alive /\ mode = "adapter" /\ apc = "closeResults"
  /\ IF resClosed
     THEN crashed' = "close of closed channel"
          /\ UNCHANGED <<apc, resClosed, resCloses>>
     ELSE resClosed' = TRUE /\ resCloses' = resCloses + 1 /\ apc' = "done"
          /\ UNCHANGED crashed
  /\ UNCHANGED <<setup, mainv, calls, barrier, jobsv, cpc, chans, hist, collv,
                 herr, fwd, quit, quitClosed, signalled, delivered, drainv>>

Adapter ==
  \/ AdapterStart \/ AdapterQuit
  \/ \E k \in Pages : AdapterRecvErr(k)
  \/ AdapterErrsClosed
  \/ \E k \in Pages : AdapterRecvObj(k)
  \/ AdapterObjectsClosed
  \/ AdapterForward
  \/ HandleCancel \/ HandleIgnore
  \/ DefaultSend \/ DefaultClose \/ DefaultPanic
  \/ AdapterClose

InitAdapter == Init /\ mode = "adapter"
NextAdapter == Engine \/ Adapter
SpecAdapter == InitAdapter /\ [][NextAdapter]_vars

\* ------------------------------------------------- a draining consumer
\* A goroutine of its own that receives from p.errs and p.objects until it
\* has seen each of them closed.
\* channel()'s p.errs <- err after a failed firstReq is received
DrainRecvFirstErr ==
  /\ Alive /\ mode = "drain" /\ ~dErr
  /\ mainpc = "sendFirstErr" /\ ~errClosed
  /\ recvErrs' = [recvErrs EXCEPT ![0] = Append(@, firstErr)]
  /\ mainpc' = "failCloseErrs"
  /\ UNCHANGED <<setup, crashed, n, firstErr, hasLast, page, calls, barrier, jobsv,
                 cpc, chans, recvObjs, collv, adaptv, drainv>>

DrainRecvErr(k) ==
  /\ Alive /\ mode = "drain" /\ ~dErr
  /\ TakeErr(k)
  /\ UNCHANGED <<setup, crashed, mainv, calls, barrier, cpc, chans, collv,
                 adaptv, drainv>>

DrainRecvObj(k) ==
  /\ Alive /\ mode = "drain" /\ ~dObj
  /\ TakeObj(k)
  /\ UNCHANGED <<setup, crashed, mainv, calls, barrier, cpc, chans, collv,
                 adaptv, drainv>>

DrainErrsClosed ==
  /\ Alive /\ mode = "drain" /\ ~dErr /\ errClosed
  /\ dErr' = TRUE
  /\ UNCHANGED <<setup, crashed, mainv, calls, barrier, jobsv, cpc, chans,
                 hist, collv, adaptv, dObj>>

DrainObjectsClosed ==
  /\ Alive /\ mode = "drain" /\ ~dObj /\ objClosed
  /\ dObj' = TRUE
  /\ UNCHANGED <<setup, crashed, mainv, calls, barrier, jobsv, cpc, chans,
                 hist, collv, adaptv, dErr>>

Drain ==
  \/ DrainRecvFirstErr
  \/ \E k \in Pages : DrainRecvErr(k)
  \/ \E k \in Pages : DrainRecvObj(k)
  \/ DrainErrsClosed \/ DrainObjectsClosed

FailPath == FailCloseErrs \/ FailCloseObjects

InitDrain == Init /\ mode = "drain"
NextDrain == Engine \/ FailPath \/ Drain
SpecDrain == InitDrain /\ [][NextDrain]_vars

\* ------------------------------------------------ files() / FilesChan
\* files(p) makes the typed channel, calls p.channel() and, once that has
\* returned, starts the forwarding goroutine and hands the typed channel
\* and p.errs to the caller.  A nil channel (channel() returned nil) blocks
\* the range loop for ever.
FilesStart ==
  /\ Alive /\ mode = "files" /\ apc = "idle" /\ Returned
  /\ apc' = IF mainpc = "returnedNil" THEN "rangeNil" ELSE "range"
  /\ UNCHANGED <<setup, crashed, mainv, calls, barrier, jobsv, cpc, chans,
                 hist, collv, herr, fwd, quit, quitClosed, signalled,
                 resClosed, resCloses, delivered, drainv>>

\* for f := range ch, a job sending; f.(*File) panics on a nil interface
FilesRecvObj(k) ==
  /\ Alive /\ mode = "files" /\ apc = "range"
  /\ TakeObj(k)
  /\ IF Head(jrest[k]) = NilObj
     THEN crashed' = "interface conversion" /\ UNCHANGED <<apc, fwd>>
     ELSE apc' = "forward" /\ fwd' = Head(jrest[k]) /\ UNCHANGED crashed
  /\ UNCHANGED <<setup, mainv, calls, barrier, cpc, chans, collv, herr, quit,
                 quitClosed, signalled, resClosed, resCloses, delivered,
                 drainv>>

\* files <- f.(*File), received by the reader of the typed channel
FilesForward ==
  /\ Alive /\ mode = "files" /\ apc = "forward"
  /\ delivered' = [delivered EXCEPT ![PageOf(fwd)] = Append(@, fwd)]
  /\ apc' = "range"
  /\ UNCHANGED <<setup, crashed, mainv, calls, barrier, jobsv, cpc, chans,
                 hist, collv, herr, fwd, quit, quitClosed, signalled,
                 resClosed, resCloses, drainv>>

\* the range loop ends: ch is closed
FilesObjectsClosed ==
  /\ Alive /\ mode = "files" /\ apc = "range" /\ objClosed
  /\ apc' = "closeResults"
  /\ UNCHANGED <<setup, crashed, mainv, calls, barrier, jobsv, cpc, chans,
                 hist, collv, herr, fwd, quit, quitClosed, signalled,
                 resClosed, resCloses, delivered, drainv>>

\* close(files)
FilesClose ==
  /\ Alive /\ mode = "files" /\ apc = "closeResults"
  /\ resClosed' = TRUE /\ resCloses' = resCloses + 1
  /\ apc' = "done"
  /\ UNCHANGED <<setup, crashed, mainv, calls, barrier, jobsv, cpc, chans,
                 hist, collv, herr, fwd, quit, quitClosed, signalled,
                 delivered, drainv>>

\* the caller of FilesChan, holding the two channels files() returned,
\* receives a job's error from p.errs
FilesReaderRecvErr(k) ==
  /\ Alive /\ mode = "files" /\ apc # "idle"
  /\ TakeErr(k)
  /\ UNCHANGED <<setup, crashed, mainv, calls, barrier, cpc, chans, collv,
                 adaptv, drainv>>

Files ==
  \/ FilesStart
  \/ \E k \in Pages : FilesRecvObj(k)
  \/ FilesForward
  \/ FilesObjectsClosed
  \/ FilesClose
  \/ \E k \in Pages : FilesReaderRecvErr(k)

InitFiles ==
  /\ mode = "files" /\ policy = "ignore" /\ hdr = <<>>
  /\ InitState
NextFiles == Engine \/ Files
SpecFiles == InitFiles /\ [][NextFiles]_vars

\* ------------------------------------------- firstReq on a given header
\* n, resp, err := p.firstReq() where the transport answers with the Link
\* header hdr
FirstReqHdr ==
  /\ Alive /\ mode = "parse" /\ mainpc = "firstReq"
  /\ LET r == firstReq([ok |-> TRUE, header |-> hdr])
     IN /\ calls' = [calls EXCEPT ![1] = @ + 1]
        /\ firstErr' = r.err
        /\ hasLast' = \E i \in 1..Len(hdr) : hdr[i].rel = "last"
        /\ IF r.err # NilErr
           THEN mainpc' = "sendFirstErr" /\ n' = n
           ELSE mainpc' = "wgAdd" /\ n' = r.n
  /\ UNCHANGED <<setup, crashed, page, barrier, jobsv, cpc, chans, hist,
                 collv, adaptv, drainv>>

InitParse ==
  /\ mode = "parse" /\ policy = "ignore"
  /\ hdr \in Headers
  /\ InitState
NextParse == FirstReqHdr
SpecParse == InitParse /\ [][NextParse]_vars

\* ------------------------------------------------------ the whole program
Next == Engine \/ FailPath \/ Collect \/ Adapter \/ Drain
Spec == Init /\ [][Next]_vars


\* ================================================================ claims
NoNil(l) == \A i \in 1..Len(l) : l[i] # NilObj
SeqRange(l) == {l[i] : i \in 1..Len(l)}
IsPrefix(a, b) == Len(a) <= Len(b) /\ SubSeq(b, 1, Len(a)) = a
RECURSIVE SumLen(_, _)
SumLen(f, k) == IF k = 0 THEN 0 ELSE Len(f[k]) + SumLen(f, k - 1)
Failed == {k \in Pages : decoded[k] = "fail"}

\* C1: when all n >= 1 pages are fetched and decoded without error and
\* without a nil object, collect() returns, in every interleaving, a nil
\* error and a sequence that holds every decoded object exactly once: its
\* length is the sum of the lengths of the pages' decoded lists.
C1_CollectReturnsAll ==
  (/\ mode = "collect" /\ kpc = "returned" /\ n >= 1
   /\ \A k \in 1..n : decoded[k] # "fail" /\ NoNil(dlist[k]))
  => /\ \A k \in 1..n : decoded[k] = "ok"
     /\ result.err = NilErr /\ ~result.isNil
     /\ Len(result.seq) = SumLen(dlist, n)
     /\ SeqRange(result.seq) = UNION {SeqRange(dlist[k]) : k \in 1..n}
     /\ Cardinality(SeqRange(result.seq)) = Len(result.seq)

C1_Witness ==
  /\ mode = "collect" /\ kpc = "returned" /\ n = MaxPages
  /\ \A k \in 1..n : decoded[k] = "ok" /\ NoNil(dlist[k]) /\ Len(dlist[k]) = MaxObjs
  /\ Len(result.seq) = MaxPages * MaxObjs /\ result.err = NilErr

\* C2: with a consumer that receives from both streams until they are
\* closed, what is received from a page on the object stream is always a
\* prefix of that page's decoded list, and is the whole list once the job is
\* done or the stream is closed: every object exactly once, whatever the
\* other pages do.
C2_ExactlyOnce ==
  (mode = "drain" /\ n >= 1)
  => \A k \in 1..n :
       /\ IsPrefix(recvObjs[k], dlist[k])
       /\ (jpc[k] = "done" /\ decoded[k] = "ok" => recvObjs[k] = dlist[k])
       /\ (objClosed => jpc[k] = "done")
       /\ (decoded[k] = "fail" => jpc[k] \in {"sendErr", "ret", "done"})

C2_Witness ==
  /\ mode = "drain" /\ n = 2 /\ dObj /\ dErr
  /\ decoded[1] = "fail" /\ decoded[2] = "ok"
  /\ Len(dlist[2]) = MaxObjs /\ recvObjs[2] = dlist[2]

\* C3: if one of the n >= 1 page jobs has failed, collect() returns a
\* non-nil error and a nil sequence, never a nil error with a sequence.
C3_AllOrNothing ==
  (mode = "collect" /\ kpc = "returned" /\ n >= 1 /\ Failed # {})
  => result.err # NilErr /\ result.isNil

\* C3, restricted to decode calls that return no nil element
C3_AllOrNothingNoNil ==
  (/\ mode = "collect" /\ kpc = "returned" /\ n >= 1 /\ Failed # {}
   /\ \A k \in 1..n : NoNil(dlist[k]))
  => result.err # NilErr /\ result.isNil


\* C4: after a failed first request the caller is never left blocked: no
\* state is reached in which channel(), called by collect() or by a typed
\* adapter, waits at its send p.errs <- err and no step of the program is
\* possible.
C4_CallerNeverBlocked ==
  (mode \in {"collect", "adapter"} /\ mainpc = "sendFirstErr") => ENABLED Next

\* C5: when the first response's Link header has no "last" relation,
\* firstReq fails with the 'could not find last page' error, no job is
\* registered on the barrier, no worker is started and the transport was
\* called exactly once.
NoLastSeen == mainpc # "firstReq" /\ firstErr.kind # "transport" /\ ~hasLast
NothingLaunched ==
  /\ wg = 0 /\ cpc = "idle"
  /\ \A k \in Pages : jpc[k] = "idle"
  /\ calls = [k \in Pages |-> IF k = 1 THEN 1 ELSE 0]

C5_NoLastRelation ==
  NoLastSeen => firstErr = Err("nolast", 0) /\ NothingLaunched

\* C5, without the claim about which error firstReq returns
C5_NoLastNothingLaunched ==
  NoLastSeen => firstErr # NilErr /\ NothingLaunched

\* C6: with n >= 1 each stream is closed at most once and only after all n
\* jobs are done; the barrier counter is n less the number of finished jobs,
\* reaches zero once, and no send or close meets a closed stream.
EnginePanics == {"negative WaitGroup counter", "send on closed channel",
                 "close of closed channel"}
C6_CloseAfterBarrier ==
  n >= 1 =>
    /\ objCloses = (IF objClosed THEN 1 ELSE 0)
    /\ errCloses = (IF errClosed THEN 1 ELSE 0)
    /\ zeroHits <= 1
    /\ crashed \notin EnginePanics
    /\ (mainpc \in {"goFirst", "loop", "returned"}
          => wg = n - Cardinality({k \in 1..n : jpc[k] = "done"}))
    /\ (objClosed \/ errClosed \/ cpc \in {"closeObjects", "closeErrs", "done"}
          => /\ \A k \in 1..n : jpc[k] = "done"
             /\ wg = 0 /\ zeroHits = 1)

C6_Witness ==
  /\ n = MaxPages /\ objClosed /\ errClosed /\ cpc = "done" /\ zeroHits = 1
  /\ Failed # {}

\* ------------------------------------------------------------- fairness
\* The Go scheduler runs every goroutine that can take a step, and every
\* transport and decode call returns.
FairEngine ==
  /\ WF_vars(FirstReq) /\ WF_vars(WgAdd) /\ WF_vars(GoFirst)
  /\ WF_vars(GoPage) /\ WF_vars(GoCloser)
  /\ \A k \in Pages : WF_vars(JobGet(k)) /\ WF_vars(JobInit(k))
                      /\ WF_vars(JobSendClosed(k)) /\ WF_vars(JobDone(k))
  /\ WF_vars(CloserWait) /\ WF_vars(CloseObjects) /\ WF_vars(CloseErrs)

FairSpecDrain ==
  /\ SpecDrain /\ FairEngine
  /\ WF_vars(FailCloseErrs) /\ WF_vars(FailCloseObjects)
  /\ WF_vars(DrainRecvFirstErr)
  /\ \A k \in Pages : WF_vars(DrainRecvErr(k)) /\ WF_vars(DrainRecvObj(k))
  /\ WF_vars(DrainErrsClosed) /\ WF_vars(DrainObjectsClosed)

FairSpecAdapter ==
  /\ SpecAdapter /\ FairEngine
  /\ WF_vars(DefaultSend) /\ WF_vars(DefaultClose) /\ WF_vars(DefaultPanic)
  /\ WF_vars(AdapterStart) /\ WF_vars(AdapterQuit)
  /\ \A k \in Pages : SF_vars(AdapterRecvErr(k)) /\ SF_vars(AdapterRecvObj(k))
  /\ WF_vars(AdapterObjectsClosed) /\ WF_vars(AdapterForward)
  /\ WF_vars(HandleCancel) /\ WF_vars(HandleIgnore) /\ WF_vars(AdapterClose)

\* C7: under fair scheduling, with a first request that succeeded and a
\* consumer that keeps receiving from both streams, all n jobs reach the
\* barrier and both streams are closed.
C7_EventuallyClosed ==
  (mode = "drain" /\ n >= 1)
    ~> (objClosed /\ errClosed /\ \A k \in 1..n : jpc[k] = "done")

C7_Witness ==
  /\ mode = "drain" /\ n = MaxPages /\ objClosed /\ errClosed /\ dObj /\ dErr
  /\ \A k \in 1..n : jpc[k] = "done"

\* C8: a page job that failed has pushed no object and, once past its send,
\* exactly one error; a job that did not fail has pushed no error; when the
\* draining consumer has seen the error stream closed it has received as
\* many errors as pages failed.
C8_OneErrorPerFailedPage ==
  (mode = "drain" /\ n >= 1) =>
    /\ \A k \in 1..n :
         /\ decoded[k] = "fail" =>
              /\ recvObjs[k] = <<>>
              /\ recvErrs[k] = IF jpc[k] = "sendErr" THEN <<>> ELSE <<jerr[k]>>
         /\ decoded[k] # "fail" => recvErrs[k] = <<>>
    /\ recvErrs[0] = <<>>
    /\ (dErr => SumLen(recvErrs, n) = Cardinality(Failed))

C8_Witness ==
  /\ mode = "drain" /\ n = 2 /\ dErr /\ dObj
  /\ Failed = {1, 2}
  /\ recvErrs[1] = <<Err("decode", 1)>> /\ recvErrs[2] = <<Err("transport", 2)>>

\* C9: once the policy has signalled cancellation the adapter takes nothing
\* more from the object stream or the error stream and forwards nothing more
\* onto its typed output.
C9_NothingAfterCancel ==
  [][signalled => /\ delivered' = delivered
                  /\ recvObjs' = recvObjs
                  /\ recvErrs' = recvErrs]_vars

\* C10: under fair scheduling and a reader of the typed output, an adapter
\* that has started closes its output, on stream exhaustion as well as with
\* a policy that sends one value on quit for every error it is handed.
C10_OutputEventuallyClosed ==
  (mode = "adapter" /\ n >= 1 /\ apc = "select") ~> resClosed


\* C11: with a policy that never cancels, once the typed output is closed
\* every page has been handled and the objects delivered from a page are
\* exactly the objects of its decoded list, none for a page that failed.
NonNil(l) == SelectSeq(l, LAMBDA o : o # NilObj)
C11_DeliversSuccesses ==
  (mode = "adapter" /\ policy = "ignore" /\ n >= 1 /\ resClosed)
  => \A k \in 1..n :
       /\ decoded[k] # "none"
       /\ delivered[k] = IF decoded[k] = "ok" THEN NonNil(dlist[k]) ELSE <<>>

\* C11, restricted to decode calls that return no nil element
C11_DeliversSuccessesNoNil ==
  (/\ mode = "adapter" /\ policy = "ignore" /\ n >= 1 /\ resClosed
   /\ \A k \in 1..n : NoNil(dlist[k]))
  => \A k \in 1..n :
       /\ decoded[k] # "none"
       /\ delivered[k] = IF decoded[k] = "ok" THEN dlist[k] ELSE <<>>

\* C12: the typed output is closed at most once, by the adapter goroutine
\* as its last step, and the adapter is never about to send on it or to
\* close it when it is closed.
C12_OutputClosedOnce ==
  mode = "adapter" =>
    /\ resCloses = (IF resClosed THEN 1 ELSE 0)
    /\ (resClosed => apc = "done")
    /\ (apc \in {"forward", "closeResults"} => ~resClosed)

C12_Witness ==
  /\ mode = "adapter" /\ policy = "cancel" /\ signalled /\ resClosed
  /\ resCloses = 1 /\ \E k \in Pages : delivered[k] # <<>>

FairSpecCollect ==
  /\ SpecCollect /\ FairEngine
  /\ WF_vars(CollectStart) /\ WF_vars(CollectObjectsClosed)
  /\ \A k \in Pages : SF_vars(CollectRecvErr(k)) /\ SF_vars(CollectRecvObj(k))

\* C13: after collect() has returned an error every page job terminates
\* and the barrier is reached.
C13_NoLeakAfterError ==
  (mode = "collect" /\ kpc = "returned" /\ result.err # NilErr /\ n >= 1)
    ~> (wg = 0 /\ \A k \in 1..n : jpc[k] = "done")

\* C14: after the adapter has stopped on the policy's cancellation every
\* page job terminates.
C14_JobsFinishAfterCancel ==
  (mode = "adapter" /\ policy = "cancel" /\ signalled /\ apc = "done" /\ n >= 1)
    ~> (\A k \in 1..n : jpc[k] = "done")

\* C15: with defaultErrorHandler, from the first error the adapter receives
\* it only runs the handler (send on quit, which never waits, close quit,
\* panic): it receives nothing more and forwards nothing more, and ends with
\* quit signalled and closed and the process panicked.
C15_DefaultAborts ==
  (mode = "adapter" /\ policy = "default" /\ herr # NilErr) =>
    /\ apc \in {"handle", "closeQuit", "panic", "done"}
    /\ SumLen(recvErrs, MaxPages) = 1
    /\ (apc = "handle" => quit = 0 /\ ~quitClosed)
    /\ (apc = "closeQuit" => quit = 1 /\ signalled /\ ~quitClosed)
    /\ (apc = "panic" => quit = 1 /\ signalled /\ quitClosed)
    /\ (apc = "done" => /\ quit = 1 /\ signalled /\ quitClosed
                        /\ crashed = "panic in error handler")

C15_Witness ==
  /\ mode = "adapter" /\ policy = "default"
  /\ crashed = "panic in error handler" /\ quitClosed
  /\ \E k \in Pages : delivered[k] # <<>>
  /\ \E k \in Pages : jpc[k] = "sendObj"


\* page parameters that are a base-10 number, and those that are missing
\* or not a number
NumericParams == {FormatInt(v) : v \in (-1)..MaxPages}
NonNumericParams == PageParams \ NumericParams
HdrParts == {hdr[i] : i \in 1..Len(hdr)}

\* C16: when the first response carries a "last" relation with a valid page
\* number N and another relation whose page parameter is missing or not a
\* number, firstReq succeeds and records N.
C16_OtherRelationIgnored ==
  \A N \in 1..MaxPages :
    (/\ mode = "parse" /\ mainpc # "firstReq"
     /\ \E q \in HdrParts : q.rel = "last"
     /\ \A q \in HdrParts : q.rel = "last" => q.target = FormatInt(N)
     /\ \E q \in HdrParts : q.rel # "last" /\ q.target \in NonNumericParams)
    => firstErr = NilErr /\ mainpc = "wgAdd" /\ n = N

\* C17: when a matched relation's page parameter is missing or not a number
\* link parsing fails: firstReq returns the parser's error and no page count
\* is recorded.
C17_BadPageIsAnError ==
  (/\ mode = "parse" /\ mainpc # "firstReq"
   /\ \E q \in HdrParts : q.target \in NonNumericParams)
  => /\ firstErr.kind \in {"parsepage", "urlparse"}
     /\ mainpc = "sendFirstErr"
     /\ n = 0

C17_Witness ==
  /\ mode = "parse" /\ mainpc = "sendFirstErr"
  /\ hdr = <<[rel |-> "last", target |-> <<>>]>>
  /\ firstErr = Err("parsepage", 0)

\* C18: with n >= 1 the transport is asked once for page 1 and once for
\* each page 2..n whose job has made its request, never for another page;
\* n jobs are registered on the barrier; no job exists beyond page n.
C18_OneCallPerPage ==
  n >= 1 =>
    /\ calls[1] = 1
    /\ \A k \in Pages :
         /\ k > n => calls[k] = 0 /\ jpc[k] = "idle" /\ decoded[k] = "none"
         /\ (k >= 2 /\ k <= n)
              => calls[k] = IF jpc[k] \in {"idle", "get"} THEN 0 ELSE 1
    /\ (mainpc \in {"goFirst", "loop", "returned"}
          => wg + Cardinality({k \in 1..n : jpc[k] = "done"}) = n)

C18_Witness ==
  /\ n = MaxPages /\ cpc = "done"
  /\ \A k \in Pages : jpc[k] = "done" /\ calls[k] = 1

\* C19: no page job exists, no request for a page k >= 2 has been made and
\* no decode call has been started unless the first request has returned
\* without error and channel() has read n.
C19_FirstRequestFirst ==
  /\ mainpc = "firstReq" => calls = [k \in Pages |-> 0]
  /\ \A k \in Pages :
       (jpc[k] # "idle" \/ decoded[k] # "none" \/ (k >= 2 /\ calls[k] > 0))
       => /\ mainpc \in {"loop", "returned"}
          /\ firstErr = NilErr /\ calls[1] = 1
          /\ (k >= 2 => k <= n)

C19_Witness ==
  /\ mainpc = "loop" /\ n = 2 /\ calls[2] = 1 /\ jpc[2] = "init"
  /\ decoded[1] = "ok"

\* C20: what is received from a page on the object stream, what collect()
\* has collected of it and what the adapter has delivered of it are, in
\* order, a beginning of the page's decoded list.
OfPage(seq, k) == SelectSeq(seq, LAMBDA o : o # NilObj /\ PageOf(o) = k)
C20_PageOrderKept ==
  \A k \in Pages :
    /\ IsPrefix(recvObjs[k], dlist[k])
    /\ IsPrefix(OfPage(collection, k), NonNil(dlist[k]))
    /\ IsPrefix(OfPage(result.seq, k), NonNil(dlist[k]))
    /\ IsPrefix(delivered[k], NonNil(dlist[k]))

C20_Witness ==
  /\ mode = "collect" /\ kpc = "returned"
  /\ result.seq = <<Obj(1, 1), Obj(2, 1), Obj(1, 2), Obj(2, 2)>>


\* a page whose decode call returned no object and no error
EmptyPage(k) == decoded[k] = "ok" /\ dlist[k] = <<>>
AllPagesEmpty == n >= 1 /\ \A k \in 1..n : EmptyPage(k)

\* C21: a page that decodes to zero objects and no error sends no object
\* and no error and its job goes on to the barrier; when every page is
\* such a page collect() returns the empty sequence with a nil error and
\* both streams get closed.
C21_EmptyPagesCollect ==
  /\ [](\A k \in Pages :
          EmptyPage(k) => /\ recvObjs[k] = <<>> /\ recvErrs[k] = <<>>
                          /\ jpc[k] \in {"ret", "done"})
  /\ (mode = "collect" /\ AllPagesEmpty)
       ~> (/\ kpc = "returned"
           /\ result = [isNil |-> FALSE, seq |-> <<>>, err |-> NilErr]
           /\ wg = 0 /\ objClosed /\ errClosed)

C21_Witness ==
  /\ mode = "collect" /\ n = MaxPages /\ AllPagesEmpty
  /\ kpc = "returned"
  /\ result = [isNil |-> FALSE, seq |-> <<>>, err |-> NilErr]
  /\ objClosed /\ errClosed /\ \A k \in Pages : jpc[k] = "done"


\* C22: whatever page number the "last" relation parses to, the barrier
\* counter never goes below zero and no stream is sent on or closed after
\* it was closed: the engine does not panic.
C22_NoEnginePanic ==
  /\ wg >= 0
  /\ crashed \notin EnginePanics


\* the engine has closed the object stream after all n jobs finished
EngineClosedObjects == objClosed /\ \A k \in 1..n : jpc[k] = "done"

\* C23: collect() has returned its collection with a nil error, or the
\* adapter has left its loop without a cancellation, only when the engine
\* has closed the object stream, whatever the decoded lists hold.
C23_EndOnlyOnClosedStream ==
  /\ (mode = "collect" /\ n >= 1 /\ kpc = "returned" /\ result.err = NilErr)
       => EngineClosedObjects
  /\ (mode = "adapter" /\ n >= 1 /\ policy = "ignore"
        /\ apc \in {"closeResults", "done"})
       => EngineClosedObjects

\* the same without a nil element in any decoded list
C23_EndOnlyOnClosedStreamNoNil ==
  (\A k \in Pages : NoNil(dlist[k])) => C23_EndOnlyOnClosedStream


FairSpecFiles ==
  /\ SpecFiles /\ FairEngine
  /\ WF_vars(FilesStart) /\ WF_vars(FilesForward)
  /\ WF_vars(FilesObjectsClosed) /\ WF_vars(FilesClose)
  /\ \A k \in Pages : SF_vars(FilesRecvObj(k)) /\ SF_vars(FilesReaderRecvErr(k))

\* every object received from the object stream has been forwarded once
AllForwarded == \A k \in Pages : delivered[k] = recvObjs[k]

\* C24: with FilesChan and a caller that keeps receiving from the typed
\* channel and the error channel, the typed channel is eventually closed
\* with every object of the object stream forwarded once, whatever the
\* outcome of the first request and of the page jobs.
C24_FilesChanCloses ==
  (mode = "files") ~> (resClosed /\ AllForwarded)

\* the same for runs where the first request succeeds with n >= 1 and no
\* decoded list holds a nil element
C24_FilesChanClosesOnSuccess ==
  (mode = "files" /\ mainpc = "wgAdd" /\ n >= 1)
    ~> \/ resClosed /\ AllForwarded
       \/ \E k \in Pages : ~NoNil(dlist[k])

=============================================================================
